---------------------------- MODULE Spec2Model ----------------------------
(***************************************************************************)
(* LIFE text adventure: the Character record, the Job and Zone catalogs    *)
(* and the menu-driven interaction loop (src/src/character.py, job.py,     *)
(* world.py, main.py).                                                     *)
(*                                                                         *)
(* A console line is a sequence of one-character strings.  A Python dict   *)
(* with a fixed key set (Character.stats) is a function; the insertion     *)
(* ordered dict World.zones is the sequence of its values in key order.    *)
(* Python's None is the string None below, which no title equals.          *)
(***************************************************************************)
EXTENDS Integers, Sequences, FiniteSets, TLC

VARIABLES pc, stdin, name, character, world, job_manager, out, raised,
          call, result, log, calls

vars == <<pc, stdin, name, character, world, job_manager, out, raised,
          call, result, log, calls>>

None == "<None>"

(* ------------------------------ bounds --------------------------------- *)

MaxLineLen == 2

MaxCalls == 3

MaxAdds == 2

(* ------------------------------ helpers -------------------------------- *)

Max(a, b) == IF a >= b THEN a ELSE b

Min(a, b) == IF a <= b THEN a ELSE b

Range(s) == {s[i] : i \in DOMAIN s}

(* -------------------------- console lines ------------------------------ *)

Digits == {"0", "1", "2", "3", "4", "5", "6", "7", "8", "9"}

Chars == Digits \cup {"-", "+", " ", "a"}

Lines == UNION {[1..n -> Chars] : n \in 0..MaxLineLen}

NameLines == {<<>>, <<"a">>}

BackgroundLines == {<<"a">>}

DigitVal(c) ==
    CASE c = "0" -> 0 [] c = "1" -> 1 [] c = "2" -> 2 [] c = "3" -> 3
      [] c = "4" -> 4 [] c = "5" -> 5 [] c = "6" -> 6 [] c = "7" -> 7
      [] c = "8" -> 8 [] c = "9" -> 9

RECURSIVE LStrip(_)
LStrip(s) == IF s # <<>> /\ Head(s) = " " THEN LStrip(Tail(s)) ELSE s

RECURSIVE RStrip(_)
RStrip(s) ==
    IF s # <<>> /\ s[Len(s)] = " " THEN RStrip(SubSeq(s, 1, Len(s) - 1)) ELSE s

Strip(s) == RStrip(LStrip(s))

Unsigned(s) == IF s # <<>> /\ Head(s) \in {"-", "+"} THEN Tail(s) ELSE s

(* the decimal digits int() accepts after the blanks and the sign; the *)
(* alphabet Chars has no underscore and no non-ASCII digit or blank    *)
ValidDigits(d) == d # <<>> /\ \A i \in 1..Len(d) : d[i] \in Digits

RECURSIVE DigitsValue(_, _)
DigitsValue(d, acc) ==
    IF d = <<>> THEN acc
    ELSE DigitsValue(Tail(d), 10 * acc + DigitVal(Head(d)))

(* Python's int(s) raises ValueError exactly when int_raises(s) *)
int_raises(s) == ~ValidDigits(Unsigned(Strip(s)))

(* int(s) for a string it accepts *)
int(s) ==
    LET t == Strip(s)
        v == DigitsValue(Unsigned(t), 0)
    IN  IF Head(t) = "-" THEN 0 - v ELSE v

(* ------------------------------ Character ------------------------------ *)

StatNames ==
    {"force", "intelligence", "precision", "endurance", "charisma",
     "tech_competence"}

InitialStat == 10

StartingMoney == 1000

StatFloor == 0

StatCap == 100

Character(n, appearance, background) ==
    [name |-> n, appearance |-> appearance, background |-> background,
     stats |-> [s \in StatNames |-> InitialStat],
     jobs |-> <<>>, current_job |-> None, inventory |-> <<>>,
     money |-> StartingMoney]

(* variant: the upper clamp left out *)
clamp_no_cap(v) == Max(StatFloor, v)

(* the value update_stat stores: max(0, min(100, old + amount)) *)
clamp(v) == Max(StatFloor, Min(StatCap, v))

(* variant: the amount is stored instead of added *)
update_stat_overwrites(self, stat_name, amount) ==
    IF stat_name \in DOMAIN self.stats
    THEN [self |-> [self EXCEPT !.stats[stat_name] = Max(StatFloor, Min(StatCap, amount))],
          raised |-> None]
    ELSE [self |-> self, raised |-> "ValueError"]

(* variant: an unknown stat name is ignored instead of raising *)
update_stat_silent(self, stat_name, amount) ==
    IF stat_name \in DOMAIN self.stats
    THEN [self |-> [self EXCEPT !.stats[stat_name] = Max(StatFloor, Min(StatCap, @ + amount))],
          raised |-> None]
    ELSE [self |-> self, raised |-> None]

(* the call's outcome: the Character afterwards and the exception raised *)
update_stat(self, stat_name, amount) ==
    IF stat_name \in DOMAIN self.stats
    THEN [self |-> [self EXCEPT !.stats[stat_name] = clamp(@ + amount)],
          raised |-> None]
    ELSE [self |-> self, raised |-> "ValueError"]

(* variant: the title is appended to jobs instead of stored in current_job *)
set_job_appends(self, job_name) == [self EXCEPT !.jobs = Append(@, job_name)]

set_job(self, job_name) == [self EXCEPT !.current_job = job_name]

(* str(character): the four rendered lines, stats in declaration order *)
StatOrder ==
    <<"force", "intelligence", "precision", "endurance", "charisma",
      "tech_competence">>

CharacterStr(self) ==
    <<self.name, self.background, self.current_job,
      [i \in 1..Len(StatOrder) |-> <<StatOrder[i], self.stats[StatOrder[i]]>>]>>

(* -------------------------------- Job ---------------------------------- *)

Job(title, job_type, salary, requirements) ==
    [title |-> title, job_type |-> job_type, salary |-> salary,
     requirements |-> requirements]

initialize_jobs ==
    << Job("Police Officer", "legal", 3000, [force |-> 40, intelligence |-> 30]),
       Job("Doctor", "legal", 8000, [intelligence |-> 80, precision |-> 60]),
       Job("AI Developer", "legal", 7000, [tech_competence |-> 80, intelligence |-> 60]),
       Job("Entrepreneur", "legal", 5000, [charisma |-> 70, intelligence |-> 50]),
       Job("Influencer", "legal", 4000, [charisma |-> 80]),
       Job("Taxi Driver", "legal", 2500, [endurance |-> 30]),
       Job("Delivery Driver", "legal", 2000, [endurance |-> 40]),
       Job("Real Estate Agent", "legal", 4500, [charisma |-> 60]),
       Job("Dealer", "illegal", 5000, [charisma |-> 40, risk_tolerance |-> 50]),
       Job("Hacker", "illegal", 9000, [tech_competence |-> 90, intelligence |-> 70]),
       Job("Bank Robber", "illegal", 15000, [force |-> 70, precision |-> 60]),
       Job("Gang Leader", "illegal", 20000, [charisma |-> 90, force |-> 80]),
       Job("Smuggler", "illegal", 8000, [endurance |-> 50, charisma |-> 40]) >>

JobManager == [jobs |-> initialize_jobs]

(* truth value of a str-or-None argument: None and "" are false *)
Truthy(x) == x # None /\ x # ""

get_jobs(self, job_type) ==
    IF Truthy(job_type)
    THEN SelectSeq(self.jobs, LAMBDA job : job.job_type = job_type)
    ELSE self.jobs

(* -------------------------------- World -------------------------------- *)

Zone(n, description) == [name |-> n, description |-> description, events |-> <<>>]

(* variant: a list append instead of a keyed store *)
add_zone_appends(self, zone) == [self EXCEPT !.zones = Append(@, zone)]

(* self.zones[zone.name] = zone: an existing key keeps its position *)
add_zone(self, zone) ==
    IF \E i \in DOMAIN self.zones : self.zones[i].name = zone.name
    THEN [self EXCEPT !.zones =
             [i \in DOMAIN self.zones |->
                 IF self.zones[i].name = zone.name THEN zone ELSE self.zones[i]]]
    ELSE [self EXCEPT !.zones = Append(@, zone)]

DefaultZones ==
    << Zone("Financial Center", "Skyscrapers, tech companies, and high-end businesses."),
       Zone("Residential District (Rich)", "Luxury villas, gated communities, clean streets."),
       Zone("Residential District (Poor)", "Crowded apartments, graffiti, higher crime rate."),
       Zone("Nightlife District", "Clubs, bars, casinos, neon lights."),
       Zone("Industrial Zone", "Factories, warehouses, smog."),
       Zone("Port & Beach", "Shipping containers, sandy beaches, seaside cafes."),
       Zone("Suburbs & Forest", "Quiet neighborhoods, dense forest, winding roads."),
       Zone("Underground Circuit", "Illegal racing tracks, secret meetings."),
       Zone("Shopping Mall", "Interactive shops, crowds, consumerism.") >>

RECURSIVE initialize_zones(_, _)
initialize_zones(self, todo) ==
    IF todo = <<>> THEN self
    ELSE initialize_zones(add_zone(self, Head(todo)), Tail(todo))

World == initialize_zones([zones |-> <<>>], DefaultZones)

(* dict.get(name): the zone in a sequence of length one, <<>> for None *)
get_zone(self, n) == SelectSeq(self.zones, LAMBDA zone : zone.name = n)

list_zones(self) == [i \in DOMAIN self.zones |-> self.zones[i].name]

(* ----------------------- state before any call ------------------------- *)

DefaultAppearance == [hair |-> "default", eyes |-> "default"]

(* a name of main.py that is not bound yet *)
Unbound == [unbound |-> TRUE]

NoCall == [op |-> "none", args |-> <<>>]

(* ---------------- the Character driven through its methods ------------- *)

StatArgs == StatNames \cup {"magic"}

Amounts == {-200, 0, 10, 100}

InitCharacter ==
    /\ pc = "api"
    /\ stdin = [buf |-> <<>>, eof |-> FALSE]
    /\ name = <<>>
    /\ character = Character(<<"a">>, DefaultAppearance, <<>>)
    /\ world = World
    /\ job_manager = JobManager
    /\ out = <<>>
    /\ raised = None
    /\ call = NoCall
    /\ result = <<>>
    /\ log = <<>>
    /\ calls = 0

UpdateStat(stat_name, amount) ==
    /\ pc = "api"
    /\ calls < MaxCalls
    /\ LET r == update_stat(character, stat_name, amount)
       IN  /\ character' = r.self
           /\ raised' = r.raised
    /\ call' = [op |-> "update_stat", args |-> <<stat_name, amount>>]
    /\ log' = Append(log, <<stat_name, amount>>)
    /\ calls' = calls + 1
    /\ UNCHANGED <<pc, stdin, name, world, job_manager, out, result>>

NextCharacter == \E stat_name \in StatArgs, amount \in Amounts : UpdateStat(stat_name, amount)

SpecCharacter == InitCharacter /\ [][NextCharacter]_vars

(* C1: after any sequence of update_stat calls every one of the six stats  *)
(* holds a value within [0,100] (and the stats are still exactly the six). *)
C1_StatsInRange ==
    /\ DOMAIN character.stats = StatNames
    /\ \A s \in StatNames : character.stats[s] \in 0..100

C1_Witness ==
    /\ calls >= 2
    /\ \E s \in StatNames : character.stats[s] = 100
    /\ \E s \in StatNames : character.stats[s] = 0

(* C2: update_stat(name, delta) on one of the six stats sets that stat to  *)
(* max(0, min(100, old + delta)) and leaves the other five unchanged; from *)
(* 10 the calls +10, +100, -200 on one stat give 20, then 100, then 0.     *)
IsUpdateStatCall == call'.op = "update_stat" /\ calls' = calls + 1

TestSequence == << <<"force", 10>>, <<"force", 100>>, <<"force", -200>> >>

C2_TestValues == <<20, 100, 0>>

C2_UpdateStatExact ==
    /\ [][(IsUpdateStatCall /\ call'.args[1] \in StatNames) =>
            LET n == call'.args[1]
                d == call'.args[2]
                new == IF character.stats[n] + d > 100 THEN 100
                       ELSE IF character.stats[n] + d < 0 THEN 0
                       ELSE character.stats[n] + d
            IN  /\ character'.stats[n] = new
                /\ \A s \in StatNames \ {n} : character'.stats[s] = character.stats[s]
                /\ raised' = None]_vars
    /\ [](\A k \in 1..3 :
            (Len(log) = k /\ log = SubSeq(TestSequence, 1, k))
                => character.stats["force"] = C2_TestValues[k])

C2_Witness == log = TestSequence /\ character.stats["force"] = 0

(* C3: update_stat with a name that is not one of the six stats fails with *)
(* ValueError whatever the delta and the state, and changes nothing of the *)
(* Character.                                                              *)
C3_InvalidStatFails ==
    [][(IsUpdateStatCall /\ call'.args[1] \notin StatNames) =>
          /\ raised' = "ValueError"
          /\ character' = character]_vars

C3_Witness ==
    /\ raised = "ValueError"
    /\ call.args[1] = "magic"
    /\ character.stats["force"] = 100
    /\ character.stats["charisma"] = 0

(* ------------- the two catalogs driven through their methods ----------- *)

ZoneNameArgs == {"Financial Center", "Shopping Mall", "Test Zone", "Harbor"}

DescriptionArgs == {"A test description", "Another description"}

ZoneArgs == {Zone(n, d) : n \in ZoneNameArgs, d \in DescriptionArgs}

JobTypeArgs == {None, "legal", "illegal", "", "Legal", "medical"}

InitCatalog ==
    /\ pc = "api"
    /\ stdin = [buf |-> <<>>, eof |-> FALSE]
    /\ name = <<>>
    /\ character = Character(<<"a">>, DefaultAppearance, <<>>)
    /\ world = World
    /\ job_manager = JobManager
    /\ out = <<>>
    /\ raised = None
    /\ call = NoCall
    /\ result = <<>>
    /\ log = <<>>
    /\ calls = 0

AddZone(zone) ==
    /\ pc = "api"
    /\ calls < MaxAdds
    /\ world' = add_zone(world, zone)
    /\ call' = [op |-> "add_zone", args |-> <<zone>>]
    /\ result' = <<>>
    /\ log' = Append(log, zone)
    /\ calls' = calls + 1
    /\ UNCHANGED <<pc, stdin, name, character, job_manager, out, raised>>

GetZone(n) ==
    /\ pc = "api"
    /\ call' = [op |-> "get_zone", args |-> <<n>>]
    /\ result' = get_zone(world, n)
    /\ UNCHANGED <<pc, stdin, name, character, world, job_manager, out, raised,
                   log, calls>>

ListZones ==
    /\ pc = "api"
    /\ call' = [op |-> "list_zones", args |-> <<>>]
    /\ result' = list_zones(world)
    /\ UNCHANGED <<pc, stdin, name, character, world, job_manager, out, raised,
                   log, calls>>

GetJobs(job_type) ==
    /\ pc = "api"
    /\ call' = [op |-> "get_jobs", args |-> <<job_type>>]
    /\ result' = get_jobs(job_manager, job_type)
    /\ UNCHANGED <<pc, stdin, name, character, world, job_manager, out, raised,
                   log, calls>>

NextCatalog ==
    \/ \E zone \in ZoneArgs : AddZone(zone)
    \/ \E n \in ZoneNameArgs \cup {"Nowhere"} : GetZone(n)
    \/ ListZones
    \/ \E job_type \in JobTypeArgs : GetJobs(job_type)

SpecCatalog == InitCatalog /\ [][NextCatalog]_vars

(* C8: get_jobs() with no category returns all 13 jobs in catalog order,   *)
(* and get_jobs(c) for every given category string c, the empty string     *)
(* included, returns exactly the jobs whose job_type equals c, in catalog  *)
(* order: 8 for "legal", 5 for "illegal", none for a category no job has.  *)
JobsOfType(c) == SelectSeq(initialize_jobs, LAMBDA job : job.job_type = c)

C8_GetJobsByCategory ==
    call.op = "get_jobs" =>
        LET c == call.args[1]
        IN  /\ c = None => result = initialize_jobs /\ Len(result) = 13
            /\ c # None => result = JobsOfType(c)
            /\ c = "legal" => Len(result) = 8
            /\ c = "illegal" => Len(result) = 5
            /\ c \notin {None, "legal", "illegal"} => result = <<>>

(* C9: after the default construction and any sequence of add_zone calls,  *)
(* list_zones has each name once, ordered by first insertion; get_zone(n)  *)
(* of a listed name is the zone most recently added under n, whose name is *)
(* n; get_zone of a name not listed is absent.                             *)
AllAdded == DefaultZones \o log

RECURSIVE FirstInsertionOrder(_, _)
FirstInsertionOrder(zs, seen) ==
    IF zs = <<>> THEN <<>>
    ELSE IF Head(zs).name \in seen THEN FirstInsertionOrder(Tail(zs), seen)
    ELSE <<Head(zs).name>> \o FirstInsertionOrder(Tail(zs), seen \cup {Head(zs).name})

LastAdded(n) ==
    LET i == CHOOSE k \in DOMAIN AllAdded :
                 /\ AllAdded[k].name = n
                 /\ \A j \in DOMAIN AllAdded : AllAdded[j].name = n => j <= k
    IN  AllAdded[i]

C9_ZoneCatalog ==
    LET names == list_zones(world)
    IN  /\ names = FirstInsertionOrder(AllAdded, {})
        /\ \A i, j \in DOMAIN names : names[i] = names[j] => i = j
        /\ \A n \in Range(names) :
              /\ get_zone(world, n) = <<LastAdded(n)>>
              /\ get_zone(world, n)[1].name = n
        /\ get_zone(world, "Financial Center") # <<>>
        /\ \A n \in (ZoneNameArgs \cup {"Nowhere"}) \ Range(names) :
              get_zone(world, n) = <<>>
        /\ call.op = "list_zones" => result = names
        /\ call.op = "get_zone" => result = get_zone(world, call.args[1])

C9_Witness ==
    /\ Len(log) = 2
    /\ log[1].name = "Test Zone"
    /\ log[2] = Zone("Financial Center", "Another description")
    /\ call.op = "get_zone"
    /\ call.args[1] = "Financial Center"
    /\ result = <<log[2]>>
    /\ Len(world.zones) = 10

(* ------------------------- the interaction loop ------------------------ *)

(* one print (or input prompt): its format string and the values put in *)
P(fmt, args) == [fmt |-> fmt, args |-> args]

Fmts(o) == [i \in DOMAIN o |-> o[i].fmt]

Welcome == <<P("Welcome to LIFE - The Next Gen RPG", <<>>),
             P("Enter your character's name: ", <<>>)>>

BackgroundPrompt ==
    <<P("Enter your background (e.g., street kid, corporate heir): ", <<>>)>>

MenuDisplay ==
    <<P("--- Main Menu ---", <<>>),
      P("1. View Character Stats", <<>>),
      P("2. Explore NeoCity Zones", <<>>),
      P("3. Find a Job", <<>>),
      P("4. Quit", <<>>),
      P("Select an option: ", <<>>)>>

ZoneListing(zones) ==
    <<P("--- NeoCity Zones ---", <<>>)>>
    \o [i \in DOMAIN zones |-> P("{i + 1}. {zone_name}", <<i, zones[i]>>)]
    \o <<P("Select a zone to visit (or 0 to go back): ", <<>>)>>

JobListing(jobs) ==
    <<P("--- Job Market ---", <<>>)>>
    \o [i \in DOMAIN jobs |->
          P("{i + 1}. {job.title} ({job.job_type}) - ${job.salary}",
            <<i, jobs[i].title, jobs[i].job_type, jobs[i].salary>>)]
    \o <<P("Select a job to apply for (or 0 to go back): ", <<>>)>>

(* Each step below is the code from one input() to the next: where control *)
(* waits afterwards, the Character afterwards and everything printed.      *)

(* create_character, and the rest of __main__ up to the first menu prompt *)
create_character(n, background) ==
    [pc |-> "menu",
     character |-> Character(n, DefaultAppearance, background),
     out |-> MenuDisplay]

(* variant: the final else leaves the loop *)
menu_step_breaks_on_invalid(self, w, jm, choice) ==
    IF choice = <<"1">> THEN
        [pc |-> "menu", character |-> self,
         out |-> <<P("--- Character Stats ---", <<>>),
                   P("{character}", CharacterStr(self))>> \o MenuDisplay]
    ELSE IF choice = <<"2">> THEN
        [pc |-> "zone_prompt", character |-> self,
         out |-> ZoneListing(list_zones(w))]
    ELSE IF choice = <<"3">> THEN
        [pc |-> "job_prompt", character |-> self,
         out |-> JobListing(get_jobs(jm, None))]
    ELSE IF choice = <<"4">> THEN
        [pc |-> "done", character |-> self,
         out |-> <<P("Exiting game. Goodbye!", <<>>)>>]
    ELSE
        [pc |-> "done", character |-> self,
         out |-> <<P("Invalid option, please try again.", <<>>)>>]

(* the dispatch on choice *)
menu_step(self, w, jm, choice) ==
    IF choice = <<"1">> THEN
        [pc |-> "menu", character |-> self,
         out |-> <<P("--- Character Stats ---", <<>>),
                   P("{character}", CharacterStr(self))>> \o MenuDisplay]
    ELSE IF choice = <<"2">> THEN
        [pc |-> "zone_prompt", character |-> self,
         out |-> ZoneListing(list_zones(w))]
    ELSE IF choice = <<"3">> THEN
        [pc |-> "job_prompt", character |-> self,
         out |-> JobListing(get_jobs(jm, None))]
    ELSE IF choice = <<"4">> THEN
        [pc |-> "done", character |-> self,
         out |-> <<P("Exiting game. Goodbye!", <<>>)>>]
    ELSE
        [pc |-> "menu", character |-> self,
         out |-> <<P("Invalid option, please try again.", <<>>)>> \o MenuDisplay]

(* variant: int() outside any try, its ValueError ends the program *)
zone_step_uncaught(self, w, zone_choice) ==
    LET zones == list_zones(w)
    IN  IF int_raises(zone_choice) THEN
            [pc |-> "crashed", character |-> self, out |-> <<>>]
        ELSE
            LET idx == int(zone_choice) - 1
            IN  IF 0 <= idx /\ idx < Len(zones) THEN
                    LET zone == get_zone(w, zones[idx + 1])[1]
                    IN  [pc |-> "menu", character |-> self,
                         out |-> <<P("You are now in: {zone.name}", <<zone.name>>),
                                   P("Description: {zone.description}",
                                     <<zone.description>>)>> \o MenuDisplay]
                ELSE IF idx = -1 THEN
                    [pc |-> "menu", character |-> self, out |-> MenuDisplay]
                ELSE
                    [pc |-> "menu", character |-> self,
                     out |-> <<P("Invalid zone selection.", <<>>)>> \o MenuDisplay]

(* the zone sub-prompt: zones[idx] of Python is zones[idx + 1] here *)
zone_step(self, w, zone_choice) ==
    LET zones == list_zones(w)
    IN  IF int_raises(zone_choice) THEN
            [pc |-> "menu", character |-> self,
             out |-> <<P("Invalid input.", <<>>)>> \o MenuDisplay]
        ELSE
            LET idx == int(zone_choice) - 1
            IN  IF 0 <= idx /\ idx < Len(zones) THEN
                    LET zone == get_zone(w, zones[idx + 1])[1]
                    IN  [pc |-> "menu", character |-> self,
                         out |-> <<P("You are now in: {zone.name}", <<zone.name>>),
                                   P("Description: {zone.description}",
                                     <<zone.description>>)>> \o MenuDisplay]
                ELSE IF idx = -1 THEN
                    [pc |-> "menu", character |-> self, out |-> MenuDisplay]
                ELSE
                    [pc |-> "menu", character |-> self,
                     out |-> <<P("Invalid zone selection.", <<>>)>> \o MenuDisplay]

(* variant: the lower bound 0 <= idx left out, so a negative idx indexes *)
(* from the end of the list (IndexError below -len)                     *)
job_step_negative_index(self, jm, job_choice) ==
    LET jobs == get_jobs(jm, None)
    IN  IF int_raises(job_choice) THEN
            [pc |-> "menu", character |-> self,
             out |-> <<P("Invalid input.", <<>>)>> \o MenuDisplay]
        ELSE
            LET idx == int(job_choice) - 1
            IN  IF idx < -Len(jobs) THEN
                    [pc |-> "crashed", character |-> self, out |-> <<>>]
                ELSE IF idx < Len(jobs) THEN
                    LET selected_job == jobs[IF idx >= 0 THEN idx + 1 ELSE Len(jobs) + idx + 1]
                    IN  [pc |-> "menu",
                         character |-> set_job(self, selected_job.title),
                         out |-> <<P("Congratulations! You are now a {selected_job.title}.",
                                     <<selected_job.title>>)>> \o MenuDisplay]
                ELSE IF idx = -1 THEN
                    [pc |-> "menu", character |-> self, out |-> MenuDisplay]
                ELSE
                    [pc |-> "menu", character |-> self,
                     out |-> <<P("Invalid job selection.", <<>>)>> \o MenuDisplay]

(* the job sub-prompt *)
job_step(self, jm, job_choice) ==
    LET jobs == get_jobs(jm, None)
    IN  IF int_raises(job_choice) THEN
            [pc |-> "menu", character |-> self,
             out |-> <<P("Invalid input.", <<>>)>> \o MenuDisplay]
        ELSE
            LET idx == int(job_choice) - 1
            IN  IF 0 <= idx /\ idx < Len(jobs) THEN
                    LET selected_job == jobs[idx + 1]
                    IN  [pc |-> "menu",
                         character |-> set_job(self, selected_job.title),
                         out |-> <<P("Congratulations! You are now a {selected_job.title}.",
                                     <<selected_job.title>>)>> \o MenuDisplay]
                ELSE IF idx = -1 THEN
                    [pc |-> "menu", character |-> self, out |-> MenuDisplay]
                ELSE
                    [pc |-> "menu", character |-> self,
                     out |-> <<P("Invalid job selection.", <<>>)>> \o MenuDisplay]

Prompts == {"create_name", "create_background", "menu", "zone_prompt", "job_prompt"}

InitLoop ==
    /\ pc = "create_name"
    /\ stdin = [buf |-> <<>>, eof |-> FALSE]
    /\ name = <<>>
    /\ character = Unbound
    /\ world = Unbound
    /\ job_manager = Unbound
    /\ out = Welcome
    /\ raised = None
    /\ call = NoCall
    /\ result = <<>>
    /\ log = <<>>
    /\ calls = 0

(* the user: types one line while the program waits, or ends the input *)
UserTypes ==
    /\ pc \in Prompts
    /\ stdin = [buf |-> <<>>, eof |-> FALSE]
    /\ \E line \in (IF pc = "create_name" THEN NameLines
                     ELSE IF pc = "create_background" THEN BackgroundLines
                     ELSE Lines) :
          stdin' = [stdin EXCEPT !.buf = <<line>>]
    /\ UNCHANGED <<pc, name, character, world, job_manager, out, raised,
                   call, result, log, calls>>

UserEndsInput ==
    /\ pc \in Prompts
    /\ stdin = [buf |-> <<>>, eof |-> FALSE]
    /\ stdin' = [stdin EXCEPT !.eof = TRUE]
    /\ UNCHANGED <<pc, name, character, world, job_manager, out, raised,
                   call, result, log, calls>>

(* input() returns the pending line *)
HasLine == stdin.buf # <<>>

Consume == stdin' = [stdin EXCEPT !.buf = <<>>]

CreateName ==
    /\ pc = "create_name"
    /\ HasLine
    /\ Consume
    /\ name' = Head(stdin.buf)
    /\ out' = BackgroundPrompt
    /\ pc' = "create_background"
    /\ UNCHANGED <<character, world, job_manager, raised, call, result, log, calls>>

CreateBackground ==
    /\ pc = "create_background"
    /\ HasLine
    /\ Consume
    /\ LET r == create_character(name, Head(stdin.buf))
       IN  /\ character' = r.character
           /\ out' = r.out
           /\ pc' = r.pc
    /\ world' = World
    /\ job_manager' = JobManager
    /\ UNCHANGED <<name, raised, call, result, log, calls>>

MenuChoice ==
    /\ pc = "menu"
    /\ HasLine
    /\ Consume
    /\ LET r == menu_step(character, world, job_manager, Head(stdin.buf))
       IN  /\ character' = r.character
           /\ out' = r.out
           /\ pc' = r.pc
    /\ UNCHANGED <<name, world, job_manager, raised, call, result, log, calls>>

ZoneChoice ==
    /\ pc = "zone_prompt"
    /\ HasLine
    /\ Consume
    /\ LET r == zone_step(character, world, Head(stdin.buf))
       IN  /\ character' = r.character
           /\ out' = r.out
           /\ pc' = r.pc
    /\ UNCHANGED <<name, world, job_manager, raised, call, result, log, calls>>

JobChoice ==
    /\ pc = "job_prompt"
    /\ HasLine
    /\ Consume
    /\ LET r == job_step(character, job_manager, Head(stdin.buf))
       IN  /\ character' = r.character
           /\ out' = r.out
           /\ pc' = r.pc
    /\ UNCHANGED <<name, world, job_manager, raised, call, result, log, calls>>

(* input() at end of input raises EOFError, which nothing catches *)
input_at_eof == [pc |-> "crashed", raised |-> "EOFError"]

EndOfInput ==
    /\ pc \in Prompts
    /\ stdin.buf = <<>>
    /\ stdin.eof
    /\ pc' = input_at_eof.pc
    /\ raised' = input_at_eof.raised
    /\ out' = <<>>
    /\ UNCHANGED <<stdin, name, character, world, job_manager, call, result,
                   log, calls>>

NextLoop ==
    \/ UserTypes
    \/ UserEndsInput
    \/ CreateName
    \/ CreateBackground
    \/ MenuChoice
    \/ ZoneChoice
    \/ JobChoice
    \/ EndOfInput

SpecLoop == InitLoop /\ [][NextLoop]_vars

(* -------------------- claims about the interaction loop ---------------- *)

LoopPrompts == {"menu", "zone_prompt", "job_prompt"}

(* a step in which input() returned the pending line *)
ReadsLine == stdin.buf # <<>> /\ stdin'.buf = <<>>

Line == Head(stdin.buf)

Constructed == character # Unbound

DigitChars == <<"0", "1", "2", "3", "4", "5", "6", "7", "8", "9">>

(* the decimal numeral of k, 0 <= k <= 99 *)
Decimal(k) ==
    IF k < 10 THEN <<DigitChars[k + 1]>>
    ELSE <<DigitChars[(k \div 10) + 1], DigitChars[(k % 10) + 1]>>

Titles == {initialize_jobs[i].title : i \in DOMAIN initialize_jobs}

MenuShownLast(o) ==
    /\ Len(o) >= Len(MenuDisplay)
    /\ SubSeq(Fmts(o), Len(o) - Len(MenuDisplay) + 1, Len(o)) = Fmts(MenuDisplay)

(* C4: main-menu option "3" leads to the job prompt without touching the   *)
(* Character, and entering there a job index k, 1 <= k <= 13, sets         *)
(* current_job to the title of the k-th job in catalog order ("Police      *)
(* Officer" for k = 1) and changes nothing else of the Character.          *)
C4_JobSelection ==
    /\ [][(pc = "menu" /\ ReadsLine /\ Line = <<"3">>) =>
            pc' = "job_prompt" /\ character' = character]_vars
    /\ [][(pc = "job_prompt" /\ ReadsLine) =>
            \A k \in 1..13 :
                Line = Decimal(k) =>
                    /\ character'.current_job = job_manager.jobs[k].title
                    /\ k = 1 => character'.current_job = "Police Officer"
                    /\ k = 13 => character'.current_job = "Smuggler"
                    /\ character' = [character EXCEPT !.current_job = character'.current_job]
                    /\ character'.stats = character.stats
                    /\ character'.money = character.money
                    /\ character'.inventory = character.inventory]_vars

C4_Witness ==
    /\ pc = "menu"
    /\ character.current_job = "Doctor"
    /\ out[1].fmt = "Congratulations! You are now a {selected_job.title}."
    /\ character.stats = [s \in StatNames |-> 10]

(* C5: the loop is left by its break exactly on the main-menu input "4";   *)
(* every other main-menu line keeps the loop running (options "2" and "3"  *)
(* wait at their sub-prompt, the rest redisplay the menu), and every line  *)
(* at a sub-prompt returns to the displayed main menu.  (What happens when *)
(* the input ends instead of giving a line is C6.)                         *)
C5_OneTerminalTransition ==
    /\ [][(pc \in LoopPrompts /\ ReadsLine) =>
            /\ (pc' = "done") <=> (pc = "menu" /\ Line = <<"4">>)
            /\ pc' \in LoopPrompts \cup {"done"}
            /\ raised' = None
            /\ (pc = "menu" /\ Line = <<"2">>) => pc' = "zone_prompt"
            /\ (pc = "menu" /\ Line = <<"3">>) => pc' = "job_prompt"
            /\ (pc = "menu" /\ Line \notin {<<"2">>, <<"3">>, <<"4">>}) =>
                  pc' = "menu" /\ MenuShownLast(out')
            /\ pc \in {"zone_prompt", "job_prompt"} =>
                  pc' = "menu" /\ MenuShownLast(out')]_vars
    /\ [][(pc' = "done" /\ pc # "done") =>
            pc = "menu" /\ ReadsLine /\ Line = <<"4">>]_vars

C5_Witness ==
    /\ pc = "done"
    /\ out[1].fmt = "Exiting game. Goodbye!"
    /\ character.current_job = "Hacker"

(* C6: when the input ends while the program waits at a prompt, the        *)
(* process terminates normally, as on option "4", not by an unhandled      *)
(* error.                                                                  *)
C6_EndOfInputExitsNormally ==
    (stdin.eof /\ pc \notin Prompts) => (pc = "done" /\ raised = None)

(* C7: at the zone and job sub-prompts a line that is not a valid          *)
(* selection (not an integer, or an integer that is neither 0 nor within   *)
(* 1..number of entries) gets a message, no crash, the main menu again and *)
(* an unchanged Character; "0" returns to the menu with no change.         *)
Entries == IF pc = "zone_prompt" THEN Len(list_zones(world)) ELSE Len(job_manager.jobs)

InvalidSelectionMsg ==
    IF pc = "zone_prompt" THEN "Invalid zone selection." ELSE "Invalid job selection."

NotAnInteger == {<<>>, <<"a">>, <<" ">>, <<"-">>, <<"+">>, <<"1", "a">>, <<"-", "-">>,
                 <<"1", "-">>, <<"+", " ">>}

C7_InvalidSelectionRecovered ==
    [][(pc \in {"zone_prompt", "job_prompt"} /\ ReadsLine) =>
         LET isInt == ~int_raises(Line)
             back == isInt /\ int(Line) = 0
             valid == isInt /\ int(Line) \in 1..Entries
         IN  /\ Line \in NotAnInteger => ~isInt
             /\ Line \in {<<"0">>, <<"0", "0">>, <<"-", "0">>, <<" ", "0">>} => back
             /\ Line \in {<<"-", "1">>, <<"9", "9">>, <<"1", "4">>} => isInt /\ ~back /\ ~valid
             /\ ~valid =>
                  /\ pc' = "menu"
                  /\ raised' = None
                  /\ character' = character
                  /\ MenuShownLast(out')
                  /\ back => Fmts(out') = Fmts(MenuDisplay)
                  /\ ~isInt => Fmts(out') = <<"Invalid input.">> \o Fmts(MenuDisplay)
                  /\ (isInt /\ ~back) =>
                        Fmts(out') = <<InvalidSelectionMsg>> \o Fmts(MenuDisplay)]_vars

C7_Witness ==
    /\ pc = "menu"
    /\ out[1].fmt = "Invalid zone selection."
    /\ character.current_job = "Dealer"

(* C10: once the Character exists its current_job is None or the title of  *)
(* one of the 13 catalog jobs; once set it is never None again; and it     *)
(* changes only when a valid job index is read at the job prompt.          *)
C10_CurrentJobFromCatalog ==
    /\ [](Constructed => character.current_job \in {None} \cup Titles)
    /\ Cardinality(Titles) = 13
    /\ [][(Constructed /\ character.current_job # None) =>
            character'.current_job # None]_vars
    /\ [][(Constructed /\ character'.current_job # character.current_job) =>
            /\ pc = "job_prompt"
            /\ ReadsLine
            /\ ~int_raises(Line)
            /\ int(Line) \in 1..13
            /\ character'.current_job = job_manager.jobs[int(Line)].title]_vars

C10_Witness ==
    /\ pc = "zone_prompt"
    /\ character.current_job = "Gang Leader"
    /\ stdin.buf = <<<<"0">>>>

=============================================================================
